---- MODULE Spec2Model ----
(***************************************************************************)
(* Model of the multi-tenant retrieval core of Lexsy-AIAssistant:          *)
(*   - services/vector_service.py  (chunker, tenant store, retriever)      *)
(*   - services/gmail_service.py   (thread monitor, poller, message save)  *)
(*   - services/ai_service.py      (the answer generator)                  *)
(*   - api/documents.py, api/emails.py, api/chat.py, main.py (handlers)    *)
(***************************************************************************)
EXTENDS Integers, Sequences, FiniteSets, TLC

(***************************************************************************)
(* Bounds of the model.                                                    *)
(***************************************************************************)
NumClients == 2
MaxUid == 2
MaxRows == 2
MaxSpawn == 2
MaxClock == 1
MockLen == 1
MaxConversations == 8
MaxSentences == 3
MaxWords == 4
MaxOverlap == 2
BatchLen == 2

(***************************************************************************)
(* Program constants.                                                      *)
(***************************************************************************)
DocChunkSize == 800
DocOverlap == 100
EmailChunkSize == 600
EmailOverlap == 50
QueryCap == 20
MinSimilarity == 100
ZeroDistance == 1000
ContextResults == 5
HistoryWindow == 6
HistoryLimit == 6

Clients == 1..NumClients

(***************************************************************************)
(* Python values that keep their type: str(1) and 1 are different values.  *)
(***************************************************************************)
PyStr(v) == <<"str", v>>
PyInt(v) == <<"int", v>>

(***************************************************************************)
(* Texts.  A text is the list of its sentences, as re.split leaves them;   *)
(* a sentence is [sid, n]: n words, named (sid, 1) .. (sid, n).  A span of *)
(* text is a list of runs [sid, lo, hi] of consecutive words of one        *)
(* sentence, so that word identity and order are kept exactly.             *)
(***************************************************************************)
Sentence(sid, n) == [sid |-> sid, n |-> n]

Run(sid, lo, hi) == [sid |-> sid, lo |-> lo, hi |-> hi]

RECURSIVE WordCount(_)
WordCount(runs) ==
    IF runs = <<>> THEN 0
    ELSE (Head(runs).hi - Head(runs).lo + 1) + WordCount(Tail(runs))

\* words[-k:] of the words of a span
RECURSIVE LastWords(_, _)
LastWords(runs, k) ==
    IF k <= 0 \/ runs = <<>> THEN <<>>
    ELSE LET last == runs[Len(runs)]
             n == last.hi - last.lo + 1
         IN IF n >= k
            THEN <<Run(last.sid, last.hi - k + 1, last.hi)>>
            ELSE LastWords(SubSeq(runs, 1, Len(runs) - 1), k - n) \o <<last>>

SentenceRuns(s) == IF s.n = 0 THEN <<>> ELSE <<Run(s.sid, 1, s.n)>>

RECURSIVE TextRuns(_)
TextRuns(text) ==
    IF text = <<>> THEN <<>>
    ELSE SentenceRuns(Head(text)) \o TextRuns(Tail(text))

ChunkRecord(runs, size) == [text |-> runs, word_count |-> size]

\* an iteration that takes the sentence into the chunk before it saves it
ChunkStepGreedy(acc, sentence, chunk_size, overlap) ==
    LET sentence_size == sentence.n
        sruns == SentenceRuns(sentence)
    IN IF sentence_size = 0 THEN acc
       ELSE IF acc.size + sentence_size > chunk_size /\ acc.current # <<>>
       THEN [chunks |-> Append(acc.chunks,
                           ChunkRecord(acc.current \o sruns, acc.size + sentence_size)),
             current |-> LastWords(acc.current \o sruns, overlap),
             size |-> WordCount(LastWords(acc.current \o sruns, overlap))]
       ELSE [chunks |-> acc.chunks,
             current |-> acc.current \o sruns,
             size |-> acc.size + sentence_size]

\* one iteration of the loop over the sentences
ChunkStep(acc, sentence, chunk_size, overlap) ==
    LET sentence_size == sentence.n
        sruns == SentenceRuns(sentence)
    IN IF sentence_size = 0 THEN acc
       ELSE IF acc.size + sentence_size > chunk_size /\ acc.current # <<>>
       THEN IF overlap > 0 /\ acc.size > overlap
            THEN [chunks |-> Append(acc.chunks, ChunkRecord(acc.current, acc.size)),
                  current |-> LastWords(acc.current, overlap) \o sruns,
                  size |-> WordCount(LastWords(acc.current, overlap)) + sentence_size]
            ELSE [chunks |-> Append(acc.chunks, ChunkRecord(acc.current, acc.size)),
                  current |-> sruns,
                  size |-> sentence_size]
       ELSE [chunks |-> acc.chunks,
             current |-> acc.current \o sruns,
             size |-> acc.size + sentence_size]

RECURSIVE ChunkLoop(_, _, _, _)
ChunkLoop(acc, sentences, chunk_size, overlap) ==
    IF sentences = <<>> THEN acc
    ELSE ChunkLoop(ChunkStep(acc, Head(sentences), chunk_size, overlap),
                   Tail(sentences), chunk_size, overlap)

chunk_text(text, chunk_size, overlap) ==
    IF TextRuns(text) = <<>> THEN <<>>
    ELSE LET acc == ChunkLoop([chunks |-> <<>>, current |-> <<>>, size |-> 0],
                              text, chunk_size, overlap)
         IN IF acc.current # <<>>
            THEN Append(acc.chunks, ChunkRecord(acc.current, acc.size))
            ELSE acc.chunks

\* the texts the model ingests: one short sentence, and two sentences that
\* exceed one document chunk
ShortText == <<Sentence("s1", 5)>>
LongText == <<Sentence("s1", 500), Sentence("s2", 400)>>
Texts == {ShortText, LongText}

\* a text of no character, and one of blanks only
EmptyText == <<>>
WhitespaceText == <<Sentence("blank", 0)>>

\* the texts chunk_text is called with on its own: up to MaxSentences
\* sentences of up to MaxWords words (none for an empty piece of the split),
\* the i-th sentence named i
ChunkTexts ==
    UNION {{[i \in 1..len |-> Sentence(i, sizes[i])] : sizes \in [1..len -> 0..MaxWords]} :
              len \in 0..MaxSentences}
ChunkSizes == 1..MaxWords
Overlaps == 1..MaxOverlap

(***************************************************************************)
(* State.                                                                  *)
(***************************************************************************)
VARIABLES
    chroma,             \* ChromaDB: collection name -> set of stored chunks
    uid,                \* number of uuid4 values drawn so far
    clients,            \* ids of the Client rows with is_active
    documents,          \* rows of the documents table
    emails,             \* rows of the emails table
    nextDocumentId,     \* autoincrement of documents.id
    nextEmailId,        \* autoincrement of emails.id
    lastSearch,         \* the last search_similar_content call and its result
    monitoring_threads, \* GmailService.monitoring_threads
    pollers,            \* the threading.Thread objects running _monitor_thread
    starting,           \* the start_thread_monitoring call between 526 and 529
    now,                \* datetime.now()
    lastResult,         \* the last result returned by start/stop monitoring
    conversations,      \* rows of the conversations table, in order of insertion
                        \* (id, client_id, question, answer)
    lastAsk,            \* the last ask request: what generate_response built
                        \* and returned, and what the handler answered
    lastChunks,         \* the last call of chunk_text: its arguments and its list
    lastAdd,            \* the last direct call of add_*_to_vector_store: its
                        \* arguments and the chunk ids it returned
    ingests             \* the ingest-gmail requests, each with the position of
                        \* its handler in the loop over the messages

storeVars == <<chroma, uid, clients, documents, emails, nextDocumentId,
               nextEmailId, lastSearch>>
monitorVars == <<monitoring_threads, pollers, starting, now, lastResult>>
chatVars == <<conversations, lastAsk>>
chunkVars == <<lastChunks>>
callVars == <<lastAdd, ingests>>
vars == <<chroma, uid, clients, documents, emails, nextDocumentId,
          nextEmailId, lastSearch, monitoring_threads, pollers,
          starting, now, lastResult, conversations, lastAsk, lastChunks,
          lastAdd, ingests>>

(***************************************************************************)
(* VectorService: the tenant store.                                        *)
(***************************************************************************)
CollectionName(client_id) == <<"client", client_id, "legal_docs">>

get_or_create_collection(ch, client_id) ==
    IF CollectionName(client_id) \in DOMAIN ch
    THEN ch
    ELSE ch @@ (CollectionName(client_id) :> {})

\* the vector of the embedding provider for a span of text; the zero
\* vector stands in when the provider fails
ZeroVector == <<"zero">>
\* a text with no word is embedded as "Empty content", two words
generate_embeddings(runs, provider_ok) ==
    IF ~provider_ok THEN ZeroVector
    ELSE IF WordCount(runs) = 0 THEN <<"vec", 2>>
    ELSE <<"vec", WordCount(runs) % 10>>

\* distance of two vectors, in thousandths
Distance(a, b) ==
    IF a = ZeroVector /\ b = ZeroVector THEN 0
    ELSE IF a = ZeroVector \/ b = ZeroVector THEN ZeroDistance
    ELSE IF a[2] >= b[2] THEN 100 * (a[2] - b[2]) ELSE 100 * (b[2] - a[2])

\* ChromaDB's where filter: every key of the clause is present in the
\* metadata with an equal value of the same type
WhereMatch(metadata, where) ==
    \A k \in DOMAIN where : k \in DOMAIN metadata /\ metadata[k] = where[k]

DocumentChunk(client_id, document_id, i, chunk, u, provider_ok) ==
    [id |-> <<"doc", document_id, i, u>>,
     document |-> chunk.text,
     embedding |-> generate_embeddings(chunk.text, provider_ok),
     metadata |-> [client_id |-> PyStr(client_id),
                   document_id |-> PyInt(document_id),
                   chunk_index |-> PyInt(i),
                   word_count |-> PyInt(chunk.word_count),
                   source_type |-> PyStr("document")]]

EmailChunk(client_id, email_id, i, chunk, u, provider_ok) ==
    [id |-> <<"email", email_id, i, u>>,
     document |-> chunk.text,
     embedding |-> generate_embeddings(chunk.text, provider_ok),
     metadata |-> [client_id |-> PyStr(client_id),
                   email_id |-> PyInt(email_id),
                   chunk_index |-> PyInt(i),
                   word_count |-> PyInt(chunk.word_count),
                   source_type |-> PyStr("email")]]

\* an add that writes the chunks one call at a time: the state after the
\* first of them
CollectionAddFirst(ch, client_id, batch) ==
    [ch EXCEPT ![CollectionName(client_id)] =
        @ \cup {CHOOSE c \in batch : \A d \in batch : c.id[3] <= d.id[3]}]

\* collection.add of one batch
CollectionAdd(ch, client_id, batch) ==
    [ch EXCEPT ![CollectionName(client_id)] = @ \cup batch]

\* returns the store after the call and the chunk ids the call returns
add_document_to_vector_store(ch, client_id, document_id, text, u, provider_ok, add_ok) ==
    LET ch1 == get_or_create_collection(ch, client_id)
        chunks == chunk_text(text, DocChunkSize, DocOverlap)
        batch == {DocumentChunk(client_id, document_id, i - 1, chunks[i], u + i, provider_ok) :
                    i \in 1..Len(chunks)}
    IN IF chunks = <<>> THEN [chroma |-> ch1, chunk_ids |-> {}]
       ELSE IF ~add_ok THEN [chroma |-> ch1, chunk_ids |-> {}]
       ELSE [chroma |-> CollectionAdd(ch1, client_id, batch),
             chunk_ids |-> {c.id : c \in batch}]

EmailChunks(email_content) ==
    IF WordCount(TextRuns(email_content)) > EmailChunkSize
    THEN chunk_text(email_content, EmailChunkSize, EmailOverlap)
    ELSE <<ChunkRecord(TextRuns(email_content), WordCount(TextRuns(email_content)))>>

add_email_to_vector_store(ch, client_id, email_id, email_content, u, provider_ok, add_ok) ==
    LET ch1 == get_or_create_collection(ch, client_id)
        chunks == EmailChunks(email_content)
        batch == {EmailChunk(client_id, email_id, i - 1, chunks[i], u + i, provider_ok) :
                    i \in 1..Len(chunks)}
    IN IF chunks = <<>> THEN [chroma |-> ch1, chunk_ids |-> {}]
       ELSE IF ~add_ok THEN [chroma |-> ch1, chunk_ids |-> {}]
       ELSE [chroma |-> CollectionAdd(ch1, client_id, batch),
             chunk_ids |-> {c.id : c \in batch}]

\* the where clause every read and delete of a tenant starts from
ClientWhere(client_id) == [client_id |-> PyInt(client_id)]

DocumentWhere(client_id, document_id) ==
    [client_id |-> PyInt(client_id),
     document_id |-> PyInt(document_id),
     source_type |-> PyStr("document")]

EmailWhere(client_id, email_id) ==
    [client_id |-> PyInt(client_id),
     email_id |-> PyInt(email_id),
     source_type |-> PyStr("email")]

\* collection.get(where=...)
CollectionGet(ch, client_id, where) ==
    {c \in ch[CollectionName(client_id)] : WhereMatch(c.metadata, where)}

\* a delete whose filter finds the chunks that were written for the document
delete_document_chunks_written(ch, client_id, document_id) ==
    LET ch1 == get_or_create_collection(ch, client_id)
    IN [ch1 EXCEPT ![CollectionName(client_id)] =
           {c \in @ : ~(c.metadata.source_type = PyStr("document") /\ c.id[2] = document_id)}]

delete_document_chunks(ch, client_id, document_id) ==
    LET ch1 == get_or_create_collection(ch, client_id)
        found == CollectionGet(ch1, client_id, DocumentWhere(client_id, document_id))
    IN [ch1 EXCEPT ![CollectionName(client_id)] = @ \ found]

delete_email_chunks(ch, client_id, email_id) ==
    LET ch1 == get_or_create_collection(ch, client_id)
        found == CollectionGet(ch1, client_id, EmailWhere(client_id, email_id))
    IN [ch1 EXCEPT ![CollectionName(client_id)] = @ \ found]

\* a reset that drops every collection of the client
reset_client_data_all(ch, client_id) == << >>

reset_client_data(ch, client_id) ==
    [n \in DOMAIN ch \ {CollectionName(client_id)} |-> ch[n]]

(***************************************************************************)
(* VectorService: the retriever.                                           *)
(***************************************************************************)
SearchWhere(client_id, source_filter) ==
    IF source_filter = "None"
    THEN ClientWhere(client_id)
    ELSE [client_id |-> PyInt(client_id), source_type |-> PyStr(source_filter)]

Min(a, b) == IF a <= b THEN a ELSE b

\* the chunks of a set in the order collection.query returns them: nearest
\* first, chunks at the same distance in the order they were written
RECURSIVE Nearest(_, _)
Nearest(set, q) ==
    IF set = {} THEN <<>>
    ELSE LET first == CHOOSE c \in set :
                         \A d \in set :
                            \/ Distance(q, c.embedding) < Distance(q, d.embedding)
                            \/ /\ Distance(q, c.embedding) = Distance(q, d.embedding)
                               /\ c.id[4] <= d.id[4]
         IN <<first>> \o Nearest(set \ {first}, q)

Prefix(seq, n) == SubSeq(seq, 1, Min(n, Len(seq)))

FormatResult(c, q) ==
    [id |-> c.id,
     content |-> c.document,
     metadata |-> c.metadata,
     similarity_score |-> 1000 - Distance(q, c.embedding),
     distance |-> Distance(q, c.embedding)]

\* the results with a reasonable similarity, in the order of the input
RECURSIVE Reasonable(_)
Reasonable(results) ==
    IF results = <<>> THEN <<>>
    ELSE IF Head(results).similarity_score > MinSimilarity
         THEN <<Head(results)>> \o Reasonable(Tail(results))
         ELSE Reasonable(Tail(results))

\* list.sort(key=similarity_score, reverse=True): stable
RECURSIVE InsertBySimilarity(_, _)
InsertBySimilarity(sorted, r) ==
    IF sorted = <<>> THEN <<r>>
    ELSE IF Head(sorted).similarity_score >= r.similarity_score
         THEN <<Head(sorted)>> \o InsertBySimilarity(Tail(sorted), r)
         ELSE <<r>> \o sorted

RECURSIVE SortBySimilarity(_, _)
SortBySimilarity(sorted, rest) ==
    IF rest = <<>> THEN sorted
    ELSE SortBySimilarity(InsertBySimilarity(sorted, Head(rest)), Tail(rest))

\* a ranking that hands the matches back farthest first
RankNearestReversed(matched, q, n_results) ==
    LET nearest == Prefix(Nearest(matched, q), Min(n_results, QueryCap))
        formatted == Reasonable([i \in 1..Len(nearest) |-> FormatResult(nearest[i], q)])
        sorted == SortBySimilarity(<<>>, formatted)
    IN Prefix([i \in 1..Len(sorted) |-> sorted[Len(sorted) + 1 - i]], n_results)

\* collection.query(n_results=min(n_results, 20)) over the matched chunks,
\* then the similarity floor, the sort and the cut to n_results
RankNearest(matched, q, n_results) ==
    LET nearest == Prefix(Nearest(matched, q), Min(n_results, QueryCap))
        formatted == Reasonable([i \in 1..Len(nearest) |-> FormatResult(nearest[i], q)])
    IN Prefix(SortBySimilarity(<<>>, formatted), n_results)

\* a search over one shared index with no tenant clause
search_similar_content_shared(ch, client_id, query, n_results, source_filter, provider_ok) ==
    LET q == generate_embeddings(query, provider_ok)
        matched == UNION {ch[n] : n \in DOMAIN ch}
    IN RankNearest(matched, q, n_results)

\* the list search_similar_content returns, read from the store ch
search_similar_content(ch, client_id, query, n_results, source_filter, provider_ok) ==
    LET ch1 == get_or_create_collection(ch, client_id)
        q == generate_embeddings(query, provider_ok)
        matched == CollectionGet(ch1, client_id, SearchWhere(client_id, source_filter))
    IN RankNearest(matched, q, n_results)

(***************************************************************************)
(* GmailService: the simulated mailbox.                                    *)
(***************************************************************************)
EquityThread == "mock_thread_equity_001"
ContractThread == "mock_thread_contract_002"
OtherThread == "thread_abc"
ThreadIds == {EquityThread, ContractThread, OtherThread}

\* delay_hours of the message templates, in the order of the script
DelayHours(conversation_type) ==
    IF conversation_type = "client_contract"
    THEN <<0, 4>>
    ELSE <<0, 5, 18, 8, 2, 26>>

ConversationThread(conversation_type) ==
    IF conversation_type = "client_contract" THEN ContractThread ELSE EquityThread

MockStartHours == 72

\* check_interval is an argument of start_thread_monitoring; the monitors of
\* the model are started with one hour, the unit of the clock
CheckInterval == 1

RECURSIVE SumTo(_, _)
SumTo(seq, i) == IF i = 0 THEN 0 ELSE seq[i] + SumTo(seq, i - 1)

\* isoformat() + "Z", read back by fromisoformat(...replace("Z", "+00:00")):
\* a datetime that carries a timezone; datetime.now() carries none
AwareDate(t) == [t |-> t, aware |-> TRUE]
NaiveDate(t) == [t |-> t, aware |-> FALSE]

\* a > b on datetimes: comparing an aware with a naive one raises TypeError
DateGreater(a, b) ==
    IF a.aware # b.aware THEN "TypeError"
    ELSE IF a.t > b.t THEN "True" ELSE "False"

MessageBody(i) == <<Sentence("body" \o ToString(i), 40 + i)>>

simulate_mock_conversation(conversation_type, clock) ==
    LET delays == DelayHours(conversation_type)
    IN [i \in 1..Len(delays) |->
          [id |-> <<"mock", ConversationThread(conversation_type), i>>,
           thread_id |-> ConversationThread(conversation_type),
           body |-> MessageBody(i),
           date |-> AwareDate(clock - MockStartHours + SumTo(delays, i))]]

get_messages_by_thread(thread_id, clock) ==
    IF thread_id = ContractThread
    THEN simulate_mock_conversation("client_contract", clock)
    ELSE simulate_mock_conversation("equity_grant", clock)

\* "Subject: ... From: ... To: ... Date: ..." ahead of the body
EmailContent(message_id, body) == <<Sentence("header", 8)>> \o body

(***************************************************************************)
(* The relational tables.                                                  *)
(***************************************************************************)
ActiveClient(client_id) == [id |-> client_id, is_active |-> TRUE] \in clients

DocumentRow(client_id, document_id) ==
    {d \in documents : d.id = document_id /\ d.client_id = client_id}

EmailRow(client_id, email_id) ==
    {e \in emails : e.id = email_id /\ e.client_id = client_id}

\* db.query(Email).filter(gmail_message_id == id, client_id == client_id)
ExistingEmail(rows, message_id, client_id) ==
    {e \in rows : e.gmail_message_id = message_id /\ e.client_id = client_id}

\* a table without the unique constraint
UniqueViolationNever(rows, message_id) == FALSE

\* emails.gmail_message_id is declared unique over the whole table
UniqueViolation(rows, message_id) ==
    \E e \in rows : e.gmail_message_id = message_id

\* rows inserted so far, over both tables
RowCount == (nextDocumentId - 1) + (nextEmailId - 1)

Init ==
    /\ chroma = << >>
    /\ uid = 0
    /\ clients = {}
    /\ documents = {}
    /\ emails = {}
    /\ nextDocumentId = 1
    /\ nextEmailId = 1
    /\ lastSearch = [client_id |-> 0, results |-> <<>>]
    /\ monitoring_threads = << >>
    /\ pollers = << >>
    /\ starting = <<>>
    /\ now = 0
    /\ lastResult = [op |-> "none", success |-> FALSE, message |-> ""]
    /\ conversations = <<>>
    /\ lastAsk = <<>>
    /\ lastChunks = <<>>
    /\ lastAdd = <<>>
    /\ ingests = <<>>

(***************************************************************************)
(* Handlers of the clients, documents and chat routers.                    *)
(***************************************************************************)
create_client ==
    /\ Cardinality(clients) < NumClients
    /\ clients' = clients \cup {[id |-> Cardinality(clients) + 1, is_active |-> TRUE]}
    /\ UNCHANGED <<chroma, uid, documents, emails, nextDocumentId, nextEmailId, lastSearch>>
    /\ UNCHANGED monitorVars
    /\ UNCHANGED chatVars
    /\ UNCHANGED chunkVars
    /\ UNCHANGED callVars

delete_client(client_id) ==
    /\ ActiveClient(client_id)
    /\ clients' = (clients \ {[id |-> client_id, is_active |-> TRUE]})
                    \cup {[id |-> client_id, is_active |-> FALSE]}
    /\ chroma' = reset_client_data(chroma, client_id)
    /\ UNCHANGED <<uid, documents, emails, nextDocumentId, nextEmailId, lastSearch>>
    /\ UNCHANGED monitorVars
    /\ UNCHANGED chatVars
    /\ UNCHANGED chunkVars
    /\ UNCHANGED callVars

reset_client(client_id) ==
    /\ ActiveClient(client_id)
    /\ documents' = {d \in documents : d.client_id # client_id}
    /\ emails' = {e \in emails : e.client_id # client_id}
    /\ chroma' = reset_client_data(chroma, client_id)
    /\ UNCHANGED <<uid, clients, nextDocumentId, nextEmailId, lastSearch>>
    /\ UNCHANGED monitorVars
    /\ UNCHANGED chatVars
    /\ UNCHANGED chunkVars
    /\ UNCHANGED callVars

upload_document(client_id, text, provider_ok, add_ok) ==
    /\ ActiveClient(client_id)
    /\ RowCount < MaxRows
    /\ uid < MaxUid
    /\ LET added == add_document_to_vector_store(chroma, client_id, nextDocumentId,
                                                 text, uid, provider_ok, add_ok)
       IN /\ chroma' = added.chroma
          /\ uid' = uid + Cardinality(added.chunk_ids)
          /\ documents' = documents \cup
               {[id |-> nextDocumentId, client_id |-> client_id, text |-> text,
                 processing_status |->
                    IF added.chunk_ids # {} THEN "completed" ELSE "failed"]}
    /\ nextDocumentId' = nextDocumentId + 1
    /\ UNCHANGED <<clients, emails, nextEmailId, lastSearch>>
    /\ UNCHANGED monitorVars
    /\ UNCHANGED chatVars
    /\ UNCHANGED chunkVars
    /\ UNCHANGED callVars

reprocess_document(client_id, document_id, provider_ok, add_ok) ==
    /\ DocumentRow(client_id, document_id) # {}
    /\ uid < MaxUid
    /\ LET row == CHOOSE d \in DocumentRow(client_id, document_id) : TRUE
           deleted == delete_document_chunks(chroma, client_id, document_id)
           added == add_document_to_vector_store(deleted, client_id, document_id,
                                                 row.text, uid, provider_ok, add_ok)
       IN /\ chroma' = added.chroma
          /\ uid' = uid + Cardinality(added.chunk_ids)
          /\ documents' = (documents \ {row}) \cup
               {[row EXCEPT !.processing_status =
                    IF added.chunk_ids # {} THEN "completed" ELSE "failed"]}
    /\ UNCHANGED <<clients, emails, nextDocumentId, nextEmailId, lastSearch>>
    /\ UNCHANGED monitorVars
    /\ UNCHANGED chatVars
    /\ UNCHANGED chunkVars
    /\ UNCHANGED callVars

delete_document(client_id, document_id) ==
    /\ DocumentRow(client_id, document_id) # {}
    /\ chroma' = delete_document_chunks(chroma, client_id, document_id)
    /\ documents' = documents \ DocumentRow(client_id, document_id)
    /\ UNCHANGED <<uid, clients, emails, nextDocumentId, nextEmailId, lastSearch>>
    /\ UNCHANGED monitorVars
    /\ UNCHANGED chatVars
    /\ UNCHANGED chunkVars
    /\ UNCHANGED callVars

(***************************************************************************)
(* Handlers of the emails router.                                          *)
(***************************************************************************)
\* one iteration of the loop of ingest_sample_emails over the messages
IngestMessage(st, msg, client_id, provider_ok, add_ok) ==
    IF st.failed THEN st
    ELSE IF ExistingEmail(st.emails, msg.id, client_id) # {} THEN st
    ELSE IF UniqueViolation(st.emails, msg.id) THEN [st EXCEPT !.failed = TRUE]
    ELSE LET added == add_email_to_vector_store(st.chroma, client_id, st.nextEmailId,
                         EmailContent(msg.id, msg.body), st.uid, provider_ok, add_ok)
         IN [emails |-> st.emails \cup
                {[id |-> st.nextEmailId, client_id |-> client_id,
                  gmail_message_id |-> msg.id, body |-> msg.body,
                  is_processed |-> added.chunk_ids # {}]},
             chroma |-> added.chroma,
             nextEmailId |-> st.nextEmailId + 1,
             uid |-> st.uid + Cardinality(added.chunk_ids),
             failed |-> FALSE]

RECURSIVE IngestLoop(_, _, _, _, _)
IngestLoop(st, messages, client_id, provider_ok, add_ok) ==
    IF messages = <<>> THEN st
    ELSE IngestLoop(IngestMessage(st, Head(messages), client_id, provider_ok, add_ok),
                    Tail(messages), client_id, provider_ok, add_ok)

ingest_sample_emails(client_id, provider_ok, add_ok) ==
    /\ ActiveClient(client_id)
    /\ RowCount < MaxRows
    /\ uid < MaxUid
    /\ LET st == IngestLoop([emails |-> emails, chroma |-> chroma,
                             nextEmailId |-> nextEmailId, uid |-> uid, failed |-> FALSE],
                            Prefix(simulate_mock_conversation("equity_grant", now), MockLen),
                            client_id, provider_ok, add_ok)
       IN /\ emails' = st.emails
          /\ chroma' = st.chroma
          /\ nextEmailId' = st.nextEmailId
          /\ uid' = st.uid
    /\ UNCHANGED <<clients, documents, nextDocumentId, lastSearch>>
    /\ UNCHANGED monitorVars
    /\ UNCHANGED chatVars
    /\ UNCHANGED chunkVars
    /\ UNCHANGED callVars

reprocess_email(client_id, email_id, provider_ok, add_ok) ==
    /\ EmailRow(client_id, email_id) # {}
    /\ uid < MaxUid
    /\ LET row == CHOOSE e \in EmailRow(client_id, email_id) : TRUE
           deleted == delete_email_chunks(chroma, client_id, email_id)
           added == add_email_to_vector_store(deleted, client_id, email_id,
                       EmailContent(row.gmail_message_id, row.body), uid, provider_ok, add_ok)
       IN /\ chroma' = added.chroma
          /\ uid' = uid + Cardinality(added.chunk_ids)
          /\ emails' = IF added.chunk_ids # {}
                       THEN (emails \ {row}) \cup {[row EXCEPT !.is_processed = TRUE]}
                       ELSE emails
    /\ UNCHANGED <<clients, documents, nextDocumentId, nextEmailId, lastSearch>>
    /\ UNCHANGED monitorVars
    /\ UNCHANGED chatVars
    /\ UNCHANGED chunkVars
    /\ UNCHANGED callVars

delete_email(client_id, email_id) ==
    /\ EmailRow(client_id, email_id) # {}
    /\ chroma' = delete_email_chunks(chroma, client_id, email_id)
    /\ emails' = emails \ EmailRow(client_id, email_id)
    /\ UNCHANGED <<uid, clients, documents, nextDocumentId, nextEmailId, lastSearch>>
    /\ UNCHANGED monitorVars
    /\ UNCHANGED chatVars
    /\ UNCHANGED chunkVars
    /\ UNCHANGED callVars

(***************************************************************************)
(* ingest_gmail_messages of the emails router, one action per step of the  *)
(* handler: requests run side by side and next to the pollers, and each    *)
(* commit is a step the others can see.                                    *)
(***************************************************************************)
\* the requests that are served side by side
Requests == {1, 2}

\* gmail_service.search_messages(query, max_results): the simulated
\* conversation, of which the model takes the first BatchLen messages
search_messages(clock) == Prefix(simulate_mock_conversation("equity_grant", clock), BatchLen)

\* lines 23-38: the client is verified and the messages are fetched
ingest_begin(client_id) ==
    /\ ActiveClient(client_id)
    /\ Len(ingests) < Cardinality(Requests)
    /\ ingests' = Append(ingests,
          [client_id |-> client_id, todo |-> search_messages(now),
           pc |-> "check", email_id |-> 0, status_code |-> 0, processed |-> {}])
    /\ UNCHANGED lastAdd
    /\ UNCHANGED storeVars
    /\ UNCHANGED monitorVars
    /\ UNCHANGED chatVars
    /\ UNCHANGED chunkVars

\* lines 49-57: the test of the loop and the query for an existing email;
\* line 101 when the loop is over
ingest_check(r) ==
    /\ r \in DOMAIN ingests
    /\ ingests[r].pc = "check"
    /\ LET req == ingests[r]
       IN ingests' = [ingests EXCEPT ![r] =
             IF req.todo = <<>> THEN [req EXCEPT !.pc = "done", !.status_code = 200]
             ELSE IF ExistingEmail(emails, Head(req.todo).id, req.client_id) # {}
                  THEN [req EXCEPT !.todo = Tail(req.todo)]
                  ELSE [req EXCEPT !.pc = "insert"]]
    /\ UNCHANGED lastAdd
    /\ UNCHANGED storeVars
    /\ UNCHANGED monitorVars
    /\ UNCHANGED chatVars
    /\ UNCHANGED chunkVars

\* lines 59-76: the record is created and committed; a violated unique
\* constraint ends the request at lines 110-111 with status 500
ingest_insert(r) ==
    /\ r \in DOMAIN ingests
    /\ ingests[r].pc = "insert"
    /\ LET msg == Head(ingests[r].todo)
       IN IF UniqueViolation(emails, msg.id)
          THEN /\ ingests' = [ingests EXCEPT ![r].pc = "done", ![r].status_code = 500]
               /\ UNCHANGED <<emails, nextEmailId>>
          ELSE /\ emails' = emails \cup
                     {[id |-> nextEmailId, client_id |-> ingests[r].client_id,
                       gmail_message_id |-> msg.id, body |-> msg.body,
                       is_processed |-> FALSE]}
               /\ nextEmailId' = nextEmailId + 1
               /\ ingests' = [ingests EXCEPT ![r].pc = "embed",
                                             ![r].email_id = nextEmailId]
    /\ UNCHANGED lastAdd
    /\ UNCHANGED <<chroma, uid, clients, documents, nextDocumentId, lastSearch>>
    /\ UNCHANGED monitorVars
    /\ UNCHANGED chatVars
    /\ UNCHANGED chunkVars

\* lines 78-99: the email is written to the store and marked processed
\* when the store returned chunk ids
ingest_embed(r, provider_ok, add_ok) ==
    /\ r \in DOMAIN ingests
    /\ ingests[r].pc = "embed"
    /\ uid < MaxUid
    /\ LET req == ingests[r]
           msg == Head(req.todo)
           added == add_email_to_vector_store(chroma, req.client_id, req.email_id,
                       EmailContent(msg.id, msg.body), uid, provider_ok, add_ok)
       IN /\ chroma' = added.chroma
          /\ uid' = uid + Cardinality(added.chunk_ids)
          /\ emails' = IF added.chunk_ids = {} THEN emails
                       ELSE {IF e.id = req.email_id THEN [e EXCEPT !.is_processed = TRUE]
                             ELSE e : e \in emails}
          /\ ingests' = [ingests EXCEPT ![r].pc = "check",
                                        ![r].todo = Tail(req.todo),
                                        ![r].processed = @ \cup {msg.id}]
    /\ UNCHANGED lastAdd
    /\ UNCHANGED <<clients, documents, nextDocumentId, nextEmailId, lastSearch>>
    /\ UNCHANGED monitorVars
    /\ UNCHANGED chatVars
    /\ UNCHANGED chunkVars

(***************************************************************************)
(* Handler of the chat router: search.                                     *)
(***************************************************************************)
Queries == {TextRuns(ShortText)}
SourceFilters == {"None", "email"}
ResultCounts == {3}

search_content(client_id, query, n_results, source_filter, provider_ok) ==
    /\ ActiveClient(client_id)
    /\ chroma' = get_or_create_collection(chroma, client_id)
    /\ lastSearch' = [client_id |-> client_id,
                      results |-> search_similar_content(chroma, client_id, query,
                                     n_results, source_filter, provider_ok)]
    /\ UNCHANGED <<uid, clients, documents, emails, nextDocumentId, nextEmailId>>
    /\ UNCHANGED monitorVars
    /\ UNCHANGED chatVars
    /\ UNCHANGED chunkVars
    /\ UNCHANGED callVars

Next ==
    \/ create_client
    \/ \E c \in Clients : delete_client(c)
    \/ \E c \in Clients : reset_client(c)
    \/ \E c \in Clients, t \in Texts : upload_document(c, t, TRUE, TRUE)
    \/ \E c \in Clients, d \in 1..(MaxRows + 1), a \in BOOLEAN :
          reprocess_document(c, d, TRUE, a)
    \/ \E c \in Clients, d \in 1..(MaxRows + 1) : delete_document(c, d)
    \/ \E c \in Clients : ingest_sample_emails(c, TRUE, TRUE)
    \/ \E c \in Clients, e \in 1..(MaxRows + MockLen), a \in BOOLEAN :
          reprocess_email(c, e, TRUE, a)
    \/ \E c \in Clients, e \in 1..(MaxRows + MockLen) : delete_email(c, e)
    \/ \E c \in Clients, q \in Queries, n \in ResultCounts, f \in SourceFilters,
          p \in BOOLEAN : search_content(c, q, n, f, p)

Spec == Init /\ [][Next]_vars

(***************************************************************************)
(* AIService: the answer generator.  A prompt is the list of its messages; *)
(* a result carries, besides the fields of the returned dict, the prompt   *)
(* that was built and whether the call raised to its caller.               *)
(***************************************************************************)
\* the n-th question asked of the service: three words of its own
Question(n) == <<Run(<<"question", n>>, 1, 3)>>

\* the text a served completion answers a question with
Answer(question) == <<"answer", question>>

ApologyAnswer ==
    "I apologize, but I encountered an error while processing your question. Please try again."

SystemMessage == [role |-> "system", content |-> <<"system_prompt">>]

\* the first n entries in place of the last n
LastEntriesOldest(seq, n) == SubSeq(seq, 1, Min(n, Len(seq)))

\* seq[-n:]
LastEntries(seq, n) == SubSeq(seq, Len(seq) - Min(n, Len(seq)) + 1, Len(seq))

\* for entry in conversation_history[-6:]: the question, then the answer
RECURSIVE HistoryMessages(_)
HistoryMessages(entries) ==
    IF entries = <<>> THEN <<>>
    ELSE <<[role |-> "user", content |-> Head(entries).question],
           [role |-> "assistant", content |-> Head(entries).answer]>>
         \o HistoryMessages(Tail(entries))

_build_context_from_results(context_results) ==
    IF context_results = <<>> THEN <<"No relevant context found.">>
    ELSE [i \in 1..Len(context_results) |->
             <<context_results[i].metadata.source_type, context_results[i].content>>]

UserMessage(context_results, question) ==
    [role |-> "user",
     content |-> <<"context", _build_context_from_results(context_results),
                   "question", question>>]

_format_sources(context_results) ==
    [i \in 1..Len(context_results) |->
        [type |-> context_results[i].metadata.source_type,
         similarity_score |-> context_results[i].similarity_score,
         content_preview |-> context_results[i].content]]

BuildMessages(context_results, question, conversation_history) ==
    <<SystemMessage>>
    \o HistoryMessages(LastEntries(conversation_history, HistoryWindow))
    \o <<UserMessage(context_results, question)>>

\* response.usage.total_tokens of a served completion: at least one token
\* for each message of the prompt and one for the answer
TotalTokens(messages) == Len(messages) + 1

\* an except block that lets the exception reach the caller
on_exception_reraise(messages, context_results) ==
    [success |-> FALSE, error |-> "exception", answer |-> ApologyAnswer,
     sources |-> <<>>, context_used |-> 0, tokens_used |-> 0,
     raised |-> TRUE, messages |-> messages]

\* except Exception as e: the dict returned in place of the answer
on_exception(messages, context_results) ==
    [success |-> FALSE, error |-> "exception", answer |-> ApologyAnswer,
     sources |-> <<>>, context_used |-> 0, tokens_used |-> 0,
     raised |-> FALSE, messages |-> messages]

\* conversation_history None and [] are both falsy: the empty list
generate_response(ch, client_id, question, conversation_history, provider_ok, completion_ok) ==
    LET context_results == search_similar_content(ch, client_id, question,
                              ContextResults, "None", provider_ok)
        messages == BuildMessages(context_results, question, conversation_history)
    IN IF completion_ok
       THEN [success |-> TRUE, error |-> "", answer |-> Answer(question),
             sources |-> _format_sources(context_results),
             context_used |-> Len(context_results),
             tokens_used |-> TotalTokens(messages),
             raised |-> FALSE, messages |-> messages]
       ELSE on_exception(messages, context_results)

(***************************************************************************)
(* Handler of the chat router: ask.                                        *)
(***************************************************************************)
\* the rows of one tenant, oldest first
RECURSIVE ClientConversations(_, _)
ClientConversations(rows, client_id) ==
    IF rows = <<>> THEN <<>>
    ELSE IF Head(rows).client_id = client_id
         THEN <<Head(rows)>> \o ClientConversations(Tail(rows), client_id)
         ELSE ClientConversations(Tail(rows), client_id)

\* order_by(created_at.desc()).limit(6), reversed to chronological order
RecentHistory(rows, client_id) ==
    LET recent == LastEntries(ClientConversations(rows, client_id), HistoryLimit)
    IN [i \in 1..Len(recent) |->
           [question |-> recent[i].question, answer |-> recent[i].answer]]

AskRecord(client_id, include_history, provider_ok, completion_ok, question, status_code, body, generated) ==
    [client_id |-> client_id, include_history |-> include_history,
     provider_ok |-> provider_ok, completion_ok |-> completion_ok,
     question |-> question, status_code |-> status_code, body |-> body,
     generated |-> generated]

ask_question(client_id, include_history, provider_ok, completion_ok) ==
    /\ Len(conversations) < MaxConversations
    /\ LET question == Question(Len(conversations) + 1)
           conversation_history ==
               IF include_history THEN RecentHistory(conversations, client_id)
               ELSE <<>>
           response == generate_response(chroma, client_id, question,
                          conversation_history, provider_ok, completion_ok)
       IN IF ~ActiveClient(client_id)
          THEN /\ lastAsk' = <<AskRecord(client_id, include_history, provider_ok,
                                 completion_ok, question, 404, <<>>, <<>>)>>
               /\ UNCHANGED <<chroma, conversations>>
          ELSE /\ chroma' = get_or_create_collection(chroma, client_id)
               /\ IF ~response.success
                  THEN /\ lastAsk' = <<AskRecord(client_id, include_history,
                                         provider_ok, completion_ok, question, 500,
                                         <<>>, <<response>>)>>
                       /\ UNCHANGED conversations
                  ELSE /\ conversations' = Append(conversations,
                              [id |-> Len(conversations) + 1,
                               client_id |-> client_id,
                               question |-> question,
                               answer |-> response.answer])
                       /\ lastAsk' = <<AskRecord(client_id, include_history,
                                         provider_ok, completion_ok, question, 200,
                                         <<[success |-> TRUE,
                                            answer |-> response.answer,
                                            sources |-> response.sources,
                                            tokens_used |-> response.tokens_used,
                                            conversation_id |-> Len(conversations) + 1]>>,
                                         <<response>>)>>
    /\ UNCHANGED <<uid, clients, documents, emails, nextDocumentId, nextEmailId,
                   lastSearch>>
    /\ UNCHANGED monitorVars
    /\ UNCHANGED chunkVars
    /\ UNCHANGED callVars

(***************************************************************************)
(* chunk_text called on its own.                                           *)
(***************************************************************************)
\* one call per run of the program under test
call_chunk_text(text, chunk_size, overlap) ==
    /\ lastChunks = <<>>
    /\ lastChunks' = <<[text |-> text, chunk_size |-> chunk_size,
                        overlap |-> overlap,
                        chunks |-> chunk_text(text, chunk_size, overlap)]>>
    /\ UNCHANGED storeVars
    /\ UNCHANGED monitorVars
    /\ UNCHANGED chatVars
    /\ UNCHANGED callVars

ChunkNext ==
    \E text \in ChunkTexts, chunk_size \in ChunkSizes, overlap \in Overlaps :
        call_chunk_text(text, chunk_size, overlap)

ChunkSpec == Init /\ [][ChunkNext]_vars

(***************************************************************************)
(* The store called on its own, as any caller of VectorService may call    *)
(* it: for a tenant with or without a client row, with a text of any kind. *)
(***************************************************************************)
IngestTexts == {EmptyText, WhitespaceText, ShortText, LongText}

AddRecord(source_type, client_id, source_id, text, added) ==
    [source_type |-> source_type, client_id |-> client_id, source_id |-> source_id,
     text |-> text, chunk_ids |-> added.chunk_ids]

call_add_document(client_id, document_id, text, provider_ok, add_ok) ==
    /\ uid < MaxUid
    /\ LET added == add_document_to_vector_store(chroma, client_id, document_id,
                                                 text, uid, provider_ok, add_ok)
       IN /\ chroma' = added.chroma
          /\ uid' = uid + Cardinality(added.chunk_ids)
          /\ lastAdd' = <<AddRecord("document", client_id, document_id, text, added)>>
    /\ UNCHANGED ingests
    /\ UNCHANGED <<clients, documents, emails, nextDocumentId, nextEmailId, lastSearch>>
    /\ UNCHANGED monitorVars
    /\ UNCHANGED chatVars
    /\ UNCHANGED chunkVars

call_add_email(client_id, email_id, email_content, provider_ok, add_ok) ==
    /\ uid < MaxUid
    /\ LET added == add_email_to_vector_store(chroma, client_id, email_id,
                                              email_content, uid, provider_ok, add_ok)
       IN /\ chroma' = added.chroma
          /\ uid' = uid + Cardinality(added.chunk_ids)
          /\ lastAdd' = <<AddRecord("email", client_id, email_id, email_content, added)>>
    /\ UNCHANGED ingests
    /\ UNCHANGED <<clients, documents, emails, nextDocumentId, nextEmailId, lastSearch>>
    /\ UNCHANGED monitorVars
    /\ UNCHANGED chatVars
    /\ UNCHANGED chunkVars

StoreCallNext ==
    \/ create_client
    \/ \E c \in Clients, t \in IngestTexts, a \in BOOLEAN :
          call_add_document(c, 1, t, TRUE, a)
    \/ \E c \in Clients, t \in IngestTexts, a \in BOOLEAN :
          call_add_email(c, 1, t, TRUE, a)
    \/ \E c \in Clients, q \in Queries, n \in ResultCounts :
          search_content(c, q, n, "None", TRUE)

StoreCallSpec == Init /\ [][StoreCallNext]_vars

ChatClients == {1, 2}

ChatNext ==
    \/ create_client
    \/ upload_document(1, ShortText, TRUE, TRUE)
    \/ \E c \in ChatClients, h \in BOOLEAN, p \in BOOLEAN, k \in BOOLEAN :
          ask_question(c, h, p, k)

ChatSpec == Init /\ [][ChatNext]_vars

(***************************************************************************)
(* GmailService: thread monitoring.                                        *)
(***************************************************************************)
None == -1
Truthy(client_id) == client_id \notin {None, 0}

\* the (thread, client) pair the monitor is started and stopped for
MonitorThreadIds == {EquityThread}
MonitorClientIds == {1}

\* f"{thread_id}_{client_id}" if client_id else thread_id
MonitorKey(thread_id, client_id) ==
    IF Truthy(client_id) THEN thread_id \o "_" \o ToString(client_id) ELSE thread_id

\* a start that never finds the monitor already there
AlreadyMonitoringNever(mt, monitor_key) == FALSE

\* monitor_key in self.monitoring_threads and ...[monitor_key]["active"]
AlreadyMonitoring(mt, monitor_key) ==
    monitor_key \in DOMAIN mt /\ mt[monitor_key].active

\* self.monitoring_threads.get(monitor_key, {}).get("active", False)
KeyActive(mt, monitor_key) ==
    IF monitor_key \in DOMAIN mt THEN mt[monitor_key].active ELSE FALSE

NewPoller(thread_id, client_id, check_interval) ==
    [thread_id |-> thread_id, client_id |-> client_id,
     check_interval |-> check_interval,
     monitor_key |-> MonitorKey(thread_id, client_id),
     pc |-> "start", last_check |-> NaiveDate(0),
     cycles |-> 0, raised |-> FALSE, recovered |-> FALSE, registration |-> 0]

\* lines 515-526: the check, and the start of the poller thread when the
\* monitor is not there; lines 529-544 follow in record_monitor
start_thread_monitoring(thread_id, client_id, check_interval) ==
    /\ starting = <<>>
    /\ IF AlreadyMonitoring(monitoring_threads, MonitorKey(thread_id, client_id))
       THEN /\ lastResult' = [op |-> "start", success |-> FALSE,
                              message |-> "Already monitoring thread"]
            /\ UNCHANGED <<monitoring_threads, pollers, starting>>
       ELSE /\ Len(pollers) < MaxSpawn
            /\ pollers' = Append(pollers, NewPoller(thread_id, client_id, check_interval))
            /\ starting' = <<[thread_id |-> thread_id, client_id |-> client_id,
                              thread |-> Len(pollers) + 1]>>
            /\ UNCHANGED <<monitoring_threads, lastResult>>
    /\ UNCHANGED <<now>>
    /\ UNCHANGED storeVars
    /\ UNCHANGED chatVars
    /\ UNCHANGED chunkVars
    /\ UNCHANGED callVars

\* lines 529-544: track the monitoring thread and return
record_monitor ==
    /\ starting # <<>>
    /\ monitoring_threads' =
          [k \in DOMAIN monitoring_threads
                   \cup {MonitorKey(starting[1].thread_id, starting[1].client_id)} |->
              IF k = MonitorKey(starting[1].thread_id, starting[1].client_id)
              THEN [active |-> TRUE, thread |-> starting[1].thread,
                    thread_id |-> starting[1].thread_id, client_id |-> starting[1].client_id,
                    started_at |-> now, last_check |-> None, messages_found |-> 0]
              ELSE monitoring_threads[k]]
    /\ lastResult' = [op |-> "start", success |-> TRUE,
                      message |-> "Started monitoring thread"]
    /\ starting' = <<>>
    /\ UNCHANGED <<pollers, now>>
    /\ UNCHANGED storeVars
    /\ UNCHANGED chatVars
    /\ UNCHANGED chunkVars
    /\ UNCHANGED callVars

stop_thread_monitoring(thread_id, client_id) ==
    /\ starting = <<>>
    /\ IF MonitorKey(thread_id, client_id) \in DOMAIN monitoring_threads
       THEN /\ monitoring_threads' =
                  [k \in DOMAIN monitoring_threads \ {MonitorKey(thread_id, client_id)} |->
                      monitoring_threads[k]]
            /\ lastResult' = [op |-> "stop", success |-> TRUE,
                              message |-> "Stopped monitoring thread"]
       ELSE /\ lastResult' = [op |-> "stop", success |-> FALSE,
                              message |-> "Thread not being monitored"]
            /\ UNCHANGED monitoring_threads
    /\ UNCHANGED <<pollers, starting, now>>
    /\ UNCHANGED storeVars
    /\ UNCHANGED chatVars
    /\ UNCHANGED chunkVars
    /\ UNCHANGED callVars

(***************************************************************************)
(* GmailService._monitor_thread, one action per step of the thread.        *)
(***************************************************************************)
\* line 548
poller_begin(i) ==
    /\ i \in DOMAIN pollers
    /\ pollers[i].pc = "start"
    /\ pollers' = [pollers EXCEPT ![i].pc = "check",
                                  ![i].last_check = NaiveDate(now - 1)]
    /\ UNCHANGED <<monitoring_threads, starting, now, lastResult>>
    /\ UNCHANGED storeVars
    /\ UNCHANGED chatVars
    /\ UNCHANGED chunkVars
    /\ UNCHANGED callVars

\* the thread function returned: its locals are gone
Returned(poller) ==
    [NewPoller(poller.thread_id, poller.client_id, poller.check_interval)
        EXCEPT !.pc = "done"]

\* line 550: the test of the while loop
poller_check(i) ==
    /\ i \in DOMAIN pollers
    /\ pollers[i].pc = "check"
    /\ pollers' = [pollers EXCEPT ![i] =
                      IF KeyActive(monitoring_threads, pollers[i].monitor_key)
                      THEN [@ EXCEPT !.pc = "cycle",
                                     !.registration =
                                        monitoring_threads[pollers[i].monitor_key].thread]
                      ELSE Returned(@)]
    /\ UNCHANGED <<monitoring_threads, starting, now, lastResult>>
    /\ UNCHANGED storeVars
    /\ UNCHANGED chatVars
    /\ UNCHANGED chunkVars
    /\ UNCHANGED callVars

\* lines 555-562: the messages dated after last_check; a message whose
\* comparison raises is skipped
NewMessages(messages, last_check) ==
    SelectSeq(messages, LAMBDA m : DateGreater(m.date, last_check) = "True")

\* one iteration of the loop of _save_new_messages
SaveMessage(st, msg, client_id) ==
    IF st.failed THEN st
    ELSE IF ExistingEmail(st.emails, msg.id, client_id) # {} THEN st
    ELSE IF UniqueViolation(st.emails, msg.id) THEN [st EXCEPT !.failed = TRUE]
    ELSE [emails |-> st.emails \cup
             {[id |-> st.nextEmailId, client_id |-> client_id,
               gmail_message_id |-> msg.id, body |-> msg.body,
               is_processed |-> FALSE]},
          nextEmailId |-> st.nextEmailId + 1,
          failed |-> FALSE]

RECURSIVE SaveLoop(_, _, _)
SaveLoop(st, messages, client_id) ==
    IF messages = <<>> THEN st
    ELSE SaveLoop(SaveMessage(st, Head(messages), client_id), Tail(messages), client_id)

_save_new_messages(rows, next_id, messages, client_id) ==
    SaveLoop([emails |-> rows, nextEmailId |-> next_id, failed |-> FALSE],
             messages, client_id)

\* an exception of the cycle that ends the thread
OnCycleExceptionExit(poller) ==
    [poller EXCEPT !.pc = "done", !.raised = TRUE, !.recovered = FALSE]

\* lines 579-580: the exception of a cycle is printed, the sleep follows
OnCycleException(poller) ==
    [poller EXCEPT !.pc = "sleep", !.raised = TRUE, !.recovered = FALSE]

\* lines 551-572: fetch, pick the new messages, count and save them
poller_cycle(i, fault) ==
    /\ i \in DOMAIN pollers
    /\ pollers[i].pc = "cycle"
    /\ LET p == pollers[i]
           messages == get_messages_by_thread(p.thread_id, now)
           new_messages == NewMessages(messages, p.last_check)
           saved == _save_new_messages(emails, nextEmailId, new_messages, p.client_id)
       IN IF fault
          THEN /\ pollers' = [pollers EXCEPT ![i] = OnCycleException(p)]
               /\ UNCHANGED <<monitoring_threads, emails, nextEmailId>>
          ELSE /\ pollers' = [pollers EXCEPT ![i].pc = "mark"]
               /\ monitoring_threads' =
                     IF new_messages # <<>> /\ p.monitor_key \in DOMAIN monitoring_threads
                     THEN [monitoring_threads EXCEPT ![p.monitor_key].messages_found =
                              @ + Len(new_messages)]
                     ELSE monitoring_threads
               /\ emails' = IF new_messages # <<>> /\ Truthy(p.client_id)
                            THEN saved.emails ELSE emails
               /\ nextEmailId' = IF new_messages # <<>> /\ Truthy(p.client_id)
                                 THEN saved.nextEmailId ELSE nextEmailId
    /\ UNCHANGED <<starting, now, lastResult>>
    /\ UNCHANGED <<chroma, uid, clients, documents, nextDocumentId, lastSearch>>
    /\ UNCHANGED chatVars
    /\ UNCHANGED chunkVars
    /\ UNCHANGED callVars

\* lines 575-577: the cycle completed, last_check moves to now
poller_mark(i) ==
    /\ i \in DOMAIN pollers
    /\ pollers[i].pc = "mark"
    /\ pollers' = [pollers EXCEPT ![i].pc = "sleep",
                                  ![i].last_check = NaiveDate(now),
                                  ![i].cycles = @ + 1,
                                  ![i].recovered = pollers[i].raised]
    /\ monitoring_threads' =
          IF pollers[i].monitor_key \in DOMAIN monitoring_threads
          THEN [monitoring_threads EXCEPT ![pollers[i].monitor_key].last_check = now]
          ELSE monitoring_threads
    /\ UNCHANGED <<starting, now, lastResult>>
    /\ UNCHANGED storeVars
    /\ UNCHANGED chatVars
    /\ UNCHANGED chunkVars
    /\ UNCHANGED callVars

\* line 583: time.sleep returns, check_interval later; the clock of the
\* model stops after MaxClock intervals
poller_wake(i) ==
    /\ i \in DOMAIN pollers
    /\ pollers[i].pc = "sleep"
    /\ now < MaxClock * pollers[i].check_interval
    /\ now' = now + pollers[i].check_interval
    /\ pollers' = [pollers EXCEPT ![i].pc = "check"]
    /\ UNCHANGED <<monitoring_threads, starting, lastResult>>
    /\ UNCHANGED storeVars
    /\ UNCHANGED chatVars
    /\ UNCHANGED chunkVars
    /\ UNCHANGED callVars

MonitorNext ==
    \/ \E t \in MonitorThreadIds, c \in MonitorClientIds :
          start_thread_monitoring(t, c, CheckInterval)
    \/ record_monitor
    \/ \E t \in MonitorThreadIds, c \in MonitorClientIds : stop_thread_monitoring(t, c)
    \/ \E i \in 1..MaxSpawn : poller_begin(i)
    \/ \E i \in 1..MaxSpawn : poller_check(i)
    \/ \E i \in 1..MaxSpawn, fault \in BOOLEAN : poller_cycle(i, fault)
    \/ \E i \in 1..MaxSpawn : poller_mark(i)
    \/ \E i \in 1..MaxSpawn : poller_wake(i)

MonitorSpec == Init /\ [][MonitorNext]_vars

\* the same monitor started with a day between its polls: of the messages
\* the mailbox dates anew at every fetch, the last one then falls after the
\* previous check
LongInterval == 24

LongPollNext ==
    \/ \E t \in MonitorThreadIds, c \in MonitorClientIds :
          start_thread_monitoring(t, c, LongInterval)
    \/ record_monitor
    \/ \E t \in MonitorThreadIds, c \in MonitorClientIds : stop_thread_monitoring(t, c)
    \/ \E i \in 1..MaxSpawn : poller_begin(i)
    \/ \E i \in 1..MaxSpawn : poller_check(i)
    \/ \E i \in 1..MaxSpawn, fault \in BOOLEAN : poller_cycle(i, fault)
    \/ \E i \in 1..MaxSpawn : poller_mark(i)
    \/ \E i \in 1..MaxSpawn : poller_wake(i)

LongPollSpec == Init /\ [][LongPollNext]_vars

(***************************************************************************)
(* Properties of the tenant store.                                         *)
(***************************************************************************)
\* the chunks held in the partition of a tenant
Partition(ch, client_id) ==
    IF CollectionName(client_id) \in DOMAIN ch THEN ch[CollectionName(client_id)] ELSE {}

\* the tenant an ingest wrote a chunk for
WrittenFor(metadata) == metadata.client_id[2]

\* the chunks of one source in the partition of a tenant
SourceChunks(ch, client_id, source_type, source_id) ==
    {c \in Partition(ch, client_id) :
        /\ c.metadata.source_type = PyStr(source_type)
        /\ c.id[2] = source_id}

StoreOpFor(a) ==
    \/ \E t \in Texts : upload_document(a, t, TRUE, TRUE)
    \/ \E d \in 1..(MaxRows + 1), ok \in BOOLEAN : reprocess_document(a, d, TRUE, ok)
    \/ \E d \in 1..(MaxRows + 1) : delete_document(a, d)
    \/ ingest_sample_emails(a, TRUE, TRUE)
    \/ \E e \in 1..(MaxRows + MockLen), ok \in BOOLEAN : reprocess_email(a, e, TRUE, ok)
    \/ \E e \in 1..(MaxRows + MockLen) : delete_email(a, e)
    \/ delete_client(a)
    \/ reset_client(a)

\* C2: adding documents or emails, deleting the chunks of a document or an
\* email and resetting the data of tenant A leave the chunks of every other
\* tenant's partition unchanged: a step that changes the partition of a
\* tenant b is no store operation of another tenant a.
C2_OtherPartitionsUnchanged ==
    [][\A b \in Clients :
          Partition(chroma', b) # Partition(chroma, b) =>
              \A a \in Clients \ {b} : ~StoreOpFor(a)]_vars

\* tenant 1 was deleted, its collection dropped, and tenant 2 still holds chunks
C2_Witness ==
    /\ [id |-> 1, is_active |-> FALSE] \in clients
    /\ CollectionName(1) \notin DOMAIN chroma
    /\ Partition(chroma, 2) # {}

\* C3: the tenant filter of the reads and deletes for tenant t selects every
\* chunk an ingest wrote for t.
C3_TenantFilterSelectsWritten ==
    \A t \in Clients :
        {c \in Partition(chroma, t) : WhereMatch(c.metadata, ClientWhere(t))}
            = {c \in Partition(chroma, t) : WrittenFor(c.metadata) = t}

\* C4: after a source that has chunks is reprocessed and its new chunks are
\* written, the partition holds none of the source's earlier chunks.
C4_OneGenerationAfterReprocess ==
    [][\A c \in Clients :
          /\ \A d \in 1..(MaxRows + 1) :
                (reprocess_document(c, d, TRUE, TRUE) /\ uid' > uid) =>
                    SourceChunks(chroma', c, "document", d)
                        \cap SourceChunks(chroma, c, "document", d) = {}
          /\ \A e \in 1..(MaxRows + MockLen) :
                (reprocess_email(c, e, TRUE, TRUE) /\ uid' > uid) =>
                    SourceChunks(chroma', c, "email", e)
                        \cap SourceChunks(chroma, c, "email", e) = {}]_vars

(***************************************************************************)
(* Properties of the thread monitor.                                       *)
(***************************************************************************)
\* the pair (thread_id, client_id) has an entry that is active
PairActive(thread_id, client_id) ==
    \E k \in DOMAIN monitoring_threads :
        /\ monitoring_threads[k].thread_id = thread_id
        /\ monitoring_threads[k].client_id = client_id
        /\ monitoring_threads[k].active

\* C5: starting a pair that is already active returns the non-success
\* "Already monitoring" result, starts no poller thread and leaves the
\* monitor state as it was.
C5_StartOfActivePairRefused ==
    [][\A t \in MonitorThreadIds, c \in MonitorClientIds :
          (PairActive(t, c) /\ start_thread_monitoring(t, c, CheckInterval)) =>
              /\ lastResult' = [op |-> "start", success |-> FALSE,
                                message |-> "Already monitoring thread"]
              /\ pollers' = pollers
              /\ monitoring_threads' = monitoring_threads]_vars

\* a start was refused while a monitor is active
C5_Witness ==
    /\ lastResult = [op |-> "start", success |-> FALSE,
                     message |-> "Already monitoring thread"]
    /\ \E t \in MonitorThreadIds, c \in MonitorClientIds : PairActive(t, c)

\* the poller threads that passed the test of their loop under the entry
\* that is registered for their pair now, and have not left the loop
LoopsRunning(thread_id, client_id) ==
    {i \in DOMAIN pollers :
        /\ pollers[i].thread_id = thread_id
        /\ pollers[i].client_id = client_id
        /\ pollers[i].pc \in {"cycle", "mark", "sleep"}
        /\ pollers[i].monitor_key \in DOMAIN monitoring_threads
        /\ pollers[i].registration = monitoring_threads[pollers[i].monitor_key].thread}

\* C6: after any interleaving of starts and stops, at most one poller loop
\* is running for a pair.
C6_OneLoopPerPair ==
    \A t \in MonitorThreadIds, c \in MonitorClientIds :
        Cardinality(LoopsRunning(t, c)) <= 1

\* the entry that tracked poller i was removed by a stop
Stopped(i) ==
    /\ \A k \in DOMAIN monitoring_threads : monitoring_threads[k].thread # i
    /\ \A j \in DOMAIN starting : starting[j].thread # i
    /\ pollers[i].registration = i

\* C7: once its monitor was stopped, a poller starts no further cycle: the
\* next test of its loop ends it.
C7_StoppedPollerExits ==
    [][\A i \in DOMAIN pollers :
          (Stopped(i) /\ pollers[i].pc = "check") => pollers'[i].pc # "cycle"]_vars

\* C8: an exception inside a cycle does not end the poller: it goes to its
\* sleep, wakes, and while its key is active begins another cycle; the loop
\* is left only at its test.
C8_ExceptionKeepsLoop ==
    [][\A i \in DOMAIN pollers :
          /\ pollers[i].pc = "cycle" => pollers'[i].pc \in {"cycle", "mark", "sleep"}
          /\ pollers[i].pc = "sleep" => pollers'[i].pc \in {"sleep", "check"}
          /\ (pollers[i].pc = "check"
                /\ KeyActive(monitoring_threads, pollers[i].monitor_key))
                => pollers'[i].pc \in {"check", "cycle"}]_vars

\* a poller whose cycle raised is in a later cycle
C8_Witness ==
    \E i \in DOMAIN pollers : pollers[i].raised /\ pollers[i].pc = "cycle"

\* the messages the mailbox presents to poller i in each of its cycles
Presented(i) ==
    {get_messages_by_thread(pollers[i].thread_id, now)[n].id :
        n \in DOMAIN get_messages_by_thread(pollers[i].thread_id, now)}

C10_PresentedTwiceStoredOnce ==
    \A i \in DOMAIN pollers :
        (Truthy(pollers[i].client_id) /\ pollers[i].cycles >= 2) =>
            \A m \in Presented(i) :
                Cardinality(ExistingEmail(emails, m, pollers[i].client_id)) = 1

\* the messages of a fetch whose timestamp is later than a check
LaterThan(messages, last_check) ==
    {n \in DOMAIN messages : messages[n].date.t > last_check.t}

\* messages_found of the monitor of a poller, 0 when it has no entry
MessagesFound(mt, poller) ==
    IF poller.monitor_key \in DOMAIN mt THEN mt[poller.monitor_key].messages_found ELSE 0

\* C11: a cycle of an active monitor that follows a completed one and whose
\* fetch holds exactly one message dated after the previous check adds
\* exactly 1 to messages_found; a cycle whose fetch holds none leaves it.
C11_OneNewItemCountsOnce ==
    [][\A i \in DOMAIN pollers :
          (/\ poller_cycle(i, FALSE)
           /\ pollers[i].cycles >= 1
           /\ KeyActive(monitoring_threads, pollers[i].monitor_key)) =>
              LET later == LaterThan(get_messages_by_thread(pollers[i].thread_id, now),
                                     pollers[i].last_check)
              IN /\ Cardinality(later) = 1 =>
                      MessagesFound(monitoring_threads', pollers[i])
                         = MessagesFound(monitoring_threads, pollers[i]) + 1
                 /\ later = {} =>
                      MessagesFound(monitoring_threads', pollers[i])
                         = MessagesFound(monitoring_threads, pollers[i])]_vars

\* the chunks in the partition of a tenant that were written for a message
MessageChunks(ch, rows, client_id, message_id) ==
    UNION {SourceChunks(ch, client_id, "email", e.id) :
              e \in ExistingEmail(rows, message_id, client_id)}

\* C12: after a cycle of a poller of tenant t, every fetched message dated
\* after the previous check has chunks in the partition of t.
C12_NewItemReachesStore ==
    [][\A i \in DOMAIN pollers :
          (poller_cycle(i, FALSE) /\ Truthy(pollers[i].client_id)) =>
              LET messages == get_messages_by_thread(pollers[i].thread_id, now)
              IN \A n \in LaterThan(messages, pollers[i].last_check) :
                    MessageChunks(chroma', emails', pollers[i].client_id,
                                  messages[n].id) # {}]_vars

(***************************************************************************)
(* Properties of the answer generator and of the ask handler.              *)
(***************************************************************************)
Generated(ask) == ask.generated # <<>>

\* C13: when the embedding provider fails, generate_response returns
\* success = false with no sources and no tokens used, and does not raise.
C13_EmbeddingFailureIsFailure ==
    \A i \in DOMAIN lastAsk :
        (Generated(lastAsk[i]) /\ ~lastAsk[i].provider_ok) =>
            LET result == lastAsk[i].generated[1]
            IN /\ ~result.success
               /\ result.sources = <<>>
               /\ result.tokens_used = 0
               /\ ~result.raised

\* C14: when the completion call fails, generate_response returns a
\* structured result with success = false, an error string, no sources and
\* no tokens used, and never raises to its caller.
C14_CompletionFailureIsStructured ==
    \A i \in DOMAIN lastAsk :
        (Generated(lastAsk[i]) /\ ~lastAsk[i].completion_ok) =>
            LET result == lastAsk[i].generated[1]
            IN /\ ~result.success
               /\ result.error # ""
               /\ result.sources = <<>>
               /\ result.tokens_used = 0
               /\ ~result.raised

C14_Witness ==
    \E i \in DOMAIN lastAsk :
        /\ Generated(lastAsk[i])
        /\ ~lastAsk[i].completion_ok
        /\ lastAsk[i].generated[1].answer = ApologyAnswer

\* the prompt of an ask with history is the system message, the last
\* `pairs` question/answer pairs of the tenant's conversations with the
\* oldest first, and then the current question
PromptHasWindow(ask, rows, pairs) ==
    LET messages == ask.generated[1].messages
        all == ClientConversations(rows, ask.client_id)
        from == Len(all) - Min(pairs, Len(all))
        window == [i \in 1..(Len(all) - from) |->
                      [question |-> all[from + i].question,
                       answer |-> all[from + i].answer]]
    IN /\ Len(messages) = 2 * Len(window) + 2
       /\ messages[1] = SystemMessage
       /\ \A i \in 1..Len(window) :
             /\ messages[2 * i] = [role |-> "user", content |-> window[i].question]
             /\ messages[2 * i + 1] = [role |-> "assistant", content |-> window[i].answer]
       /\ messages[Len(messages)].role = "user"
       /\ messages[Len(messages)].content[4] = ask.question

\* C15 as stated: the prompt contains at most the last 3 question/answer
\* pairs (6 messages) of the history, the oldest of the window first, before
\* the current question.
C15_ThreePairWindow ==
    [][\A i \in DOMAIN lastAsk' :
          (lastAsk' # lastAsk /\ Generated(lastAsk'[i]) /\ lastAsk'[i].include_history) =>
              PromptHasWindow(lastAsk'[i], conversations, 3)]_vars

\* C15: the prompt contains at most the last 6 question/answer pairs
\* (12 messages) of the history, the oldest of the window first, before the
\* current question.
C15_SixPairWindow ==
    [][\A i \in DOMAIN lastAsk' :
          (lastAsk' # lastAsk /\ Generated(lastAsk'[i]) /\ lastAsk'[i].include_history) =>
              PromptHasWindow(lastAsk'[i], conversations, HistoryWindow)]_vars

\* an ask with history of a tenant that had more conversations than the
\* window holds: the oldest one is left out of the prompt
C15_Witness ==
    \E i \in DOMAIN lastAsk :
        /\ Generated(lastAsk[i])
        /\ lastAsk[i].include_history
        /\ lastAsk[i].status_code = 200
        /\ Len(ClientConversations(conversations, lastAsk[i].client_id)) > HistoryWindow + 1
        /\ Len(lastAsk[i].generated[1].messages) = 2 * HistoryWindow + 2

\* C16: an ask request whose completion cannot be served is answered with
\* the apologetic failure answer and zero sources, not with an HTTP-level
\* error.
C16_FailedAskIsAnswered ==
    \A i \in DOMAIN lastAsk :
        (Generated(lastAsk[i]) /\ ~lastAsk[i].completion_ok) =>
            /\ lastAsk[i].status_code = 200
            /\ \A j \in DOMAIN lastAsk[i].body :
                  /\ lastAsk[i].body[j].answer = ApologyAnswer
                  /\ lastAsk[i].body[j].sources = <<>>
            /\ lastAsk[i].body # <<>>

(***************************************************************************)
(* Properties of the retriever's ranking.                                  *)
(***************************************************************************)
IsPrefix(a, b) == Len(a) <= Len(b) /\ \A i \in 1..Len(a) : a[i] = b[i]

Descending(results) ==
    \A i \in 1..(Len(results) - 1) :
        results[i].similarity_score >= results[i + 1].similarity_score

\* the result counts a search is asked for
PrefixCounts == {1, 2, 3, 10}

\* the document handlers and the search alone: the stores a search can meet
RankNext ==
    \/ create_client
    \/ \E c \in Clients, t \in Texts : upload_document(c, t, TRUE, TRUE)
    \/ \E c \in Clients, d \in 1..(MaxRows + 1), a \in BOOLEAN :
          reprocess_document(c, d, TRUE, a)
    \/ \E c \in Clients, d \in 1..(MaxRows + 1) : delete_document(c, d)
    \/ \E c \in Clients, q \in Queries, n \in PrefixCounts :
          search_content(c, q, n, "None", TRUE)

RankSpec == Init /\ [][RankNext]_vars

RECURSIVE Words(_)
Words(runs) ==
    IF runs = <<>> THEN <<>>
    ELSE [k \in 1..(Head(runs).hi - Head(runs).lo + 1) |->
             <<Head(runs).sid, Head(runs).lo + k - 1>>]
         \o Words(Tail(runs))

ChunkWords(call, i) == Words(call.chunks[i].text)

\* the number of words chunk i shares with the end of the chunk before it
\* when it begins with that chunk's trailing `overlap` words (all of its
\* words when it has fewer)
OverlapLength(call, i) == Min(call.overlap, Len(ChunkWords(call, i - 1)))

BeginsWithOverlap(call, i) ==
    LET prev == ChunkWords(call, i - 1)
        k == OverlapLength(call, i)
    IN /\ Len(ChunkWords(call, i)) >= k
       /\ SubSeq(ChunkWords(call, i), 1, k) = SubSeq(prev, Len(prev) - k + 1, Len(prev))

\* C18: for every text, chunk_size and overlap > 0, each chunk after the
\* first begins with the trailing `overlap` words of the chunk before it.
C18_ChunkBeginsWithOverlap ==
    \A c \in DOMAIN lastChunks :
        \A i \in 2..Len(lastChunks[c].chunks) : BeginsWithOverlap(lastChunks[c], i)

NoLongSentence(call) ==
    \A s \in DOMAIN call.text : call.text[s].n <= call.chunk_size

\* C19: when no sentence has more than chunk_size words, every chunk has at
\* most chunk_size + overlap words.
C19_ChunkSizeBound ==
    \A c \in DOMAIN lastChunks :
        NoLongSentence(lastChunks[c]) =>
            \A i \in DOMAIN lastChunks[c].chunks :
                /\ Len(ChunkWords(lastChunks[c], i)) <= lastChunks[c].chunk_size + lastChunks[c].overlap
                /\ lastChunks[c].chunks[i].word_count = Len(ChunkWords(lastChunks[c], i))

\* a later chunk that reaches the bound: a full overlap and a sentence of
\* chunk_size words
C19_Witness ==
    \E c \in DOMAIN lastChunks :
        /\ NoLongSentence(lastChunks[c])
        /\ \E i \in 2..Len(lastChunks[c].chunks) :
              Len(ChunkWords(lastChunks[c], i)) = lastChunks[c].chunk_size + lastChunks[c].overlap

\* the chunks in output order, each after the first without its first
\* OverlapLength words
RECURSIVE Reassembled(_, _)
Reassembled(call, i) ==
    IF i > Len(call.chunks) THEN <<>>
    ELSE (IF i = 1 THEN ChunkWords(call, 1)
          ELSE SubSeq(ChunkWords(call, i), OverlapLength(call, i) + 1,
                      Len(ChunkWords(call, i))))
         \o Reassembled(call, i + 1)

\* C20: for every text, removing from each chunk after the first its
\* overlap prefix and concatenating the chunks in output order gives the
\* words of the text in their order: none dropped, duplicated or reordered.
C20_ChunksReassembleText ==
    \A c \in DOMAIN lastChunks :
        Reassembled(lastChunks[c], 1) = Words(TextRuns(lastChunks[c].text))

(***************************************************************************)
(* Properties of the store called on its own.                              *)
(***************************************************************************)
NoWord(text) == WordCount(TextRuns(text)) = 0

\* C21: ingesting an empty or whitespace-only text, as a document or as an
\* email, writes no chunk to the tenant's partition and returns an empty
\* list.
C21_EmptyTextWritesNothing ==
    [][\A i \in DOMAIN lastAdd' :
          (lastAdd' # lastAdd /\ NoWord(lastAdd'[i].text)) =>
              /\ lastAdd'[i].chunk_ids = {}
              /\ Partition(chroma', lastAdd'[i].client_id)
                    = Partition(chroma, lastAdd'[i].client_id)]_vars

\* the number of chunks the source of a call is cut into
SourceChunkCount(call) ==
    IF call.source_type = "document"
    THEN Len(chunk_text(call.text, DocChunkSize, DocOverlap))
    ELSE Len(EmailChunks(call.text))

TenantWriteNext ==
    \/ create_client
    \/ \E c \in Clients, t \in Texts, a \in BOOLEAN : call_add_document(c, 1, t, TRUE, a)
    \/ \E c \in Clients, t \in Texts, a \in BOOLEAN : call_add_email(c, 1, t, TRUE, a)
    \/ \E t \in MonitorThreadIds, c \in Clients :
          start_thread_monitoring(t, c, CheckInterval)
    \/ record_monitor
    \/ \E t \in MonitorThreadIds, c \in Clients : stop_thread_monitoring(t, c)

TenantWriteSpec == Init /\ [][TenantWriteNext]_vars

KnownTenant(client_id) == \E row \in clients : row.id = client_id

\* C23: a write that references a tenant that does not exist is surfaced as
\* a failure and writes nothing for that tenant: an ingest into its store
\* returns no chunk id and leaves the store as it was, and the start of a
\* monitor for it does not return success.
C23_UnknownTenantWriteRefused ==
    [][/\ \A i \in DOMAIN lastAdd' :
             (lastAdd' # lastAdd /\ ~KnownTenant(lastAdd'[i].client_id)) =>
                 lastAdd'[i].chunk_ids = {} /\ chroma' = chroma
       /\ \A i \in DOMAIN starting :
             (starting' = <<>> /\ lastResult'.success) =>
                 KnownTenant(starting[i].client_id)]_vars

(***************************************************************************)
(* Ingest requests next to a poller of the same tenant.                    *)
(***************************************************************************)
\* the requests and the first cycle of the poller, all at one time of day
RaceClients == {1}

RaceNext ==
    \/ create_client
    \/ \E c \in RaceClients : ingest_begin(c)
    \/ \E r \in Requests : ingest_check(r)
    \/ \E r \in Requests : ingest_insert(r)
    \/ \E r \in Requests : ingest_embed(r, TRUE, TRUE)
    \/ \E t \in MonitorThreadIds, c \in RaceClients :
          start_thread_monitoring(t, c, CheckInterval)
    \/ record_monitor
    \/ \E i \in 1..MaxSpawn : poller_begin(i)
    \/ \E i \in 1..MaxSpawn : poller_check(i)
    \/ \E i \in 1..MaxSpawn : poller_cycle(i, FALSE)
    \/ \E i \in 1..MaxSpawn : poller_mark(i)

RaceSpec == Init /\ [][RaceNext]_vars

\* the ids of the messages an ingest request is given
BatchIds == {search_messages(now)[n].id : n \in DOMAIN search_messages(now)}

\* every request has returned, one of them with success for tenant c
IngestsReturned(c) ==
    /\ \A r \in DOMAIN ingests : ingests[r].pc = "done"
    /\ \E r \in DOMAIN ingests : ingests[r].client_id = c /\ ingests[r].status_code = 200

\* a poller of tenant c has completed a cycle, in which it fetched the
\* same messages
PollerCycled(c) ==
    \E i \in DOMAIN pollers : pollers[i].client_id = c /\ pollers[i].cycles >= 1

C25_StartedMonitorHasLoop ==
    \A k \in DOMAIN monitoring_threads :
        monitoring_threads[k].active =>
            pollers[monitoring_threads[k].thread].pc # "done"

(***************************************************************************)
(* Monitors of pairs with and without a client id.                         *)
(***************************************************************************)
\* client_id as the service takes it: None (the default), 0, or a client
PairClientIds == {None, 0, 1}

PairNext ==
    \/ \E t \in MonitorThreadIds, c \in PairClientIds :
          start_thread_monitoring(t, c, CheckInterval)
    \/ record_monitor
    \/ \E t \in MonitorThreadIds, c \in PairClientIds : stop_thread_monitoring(t, c)
    \/ \E i \in 1..MaxSpawn : poller_begin(i)
    \/ \E i \in 1..MaxSpawn : poller_check(i)
    \/ \E i \in 1..MaxSpawn : poller_cycle(i, FALSE)
    \/ \E i \in 1..MaxSpawn : poller_mark(i)
    \/ \E i \in 1..MaxSpawn : poller_wake(i)

PairSpec == Init /\ [][PairNext]_vars

\* C26: distinct (thread_id, client_id) pairs have distinct monitor entries,
\* also when client_id is None or 0: a start that is refused as already
\* monitored found an entry of its own pair, and a stop removes no entry of
\* another pair.
C26_PairsHaveOwnEntries ==
    [][\A t \in MonitorThreadIds, c \in PairClientIds :
          /\ (start_thread_monitoring(t, c, CheckInterval) /\ lastResult' # lastResult
                /\ ~lastResult'.success) =>
                \E k \in DOMAIN monitoring_threads :
                    /\ monitoring_threads[k].thread_id = t
                    /\ monitoring_threads[k].client_id = c
          /\ stop_thread_monitoring(t, c) =>
                \A k \in DOMAIN monitoring_threads \ DOMAIN monitoring_threads' :
                    /\ monitoring_threads[k].thread_id = t
                    /\ monitoring_threads[k].client_id = c]_vars

(***************************************************************************)
(* Ingest requests of several clients over one mailbox.                    *)
(***************************************************************************)
\* one request per client
CrossNext ==
    \/ create_client
    \/ \E c \in Clients :
          /\ \A r \in DOMAIN ingests : ingests[r].client_id # c
          /\ ingest_begin(c)
    \/ \E r \in Requests : ingest_check(r)
    \/ \E r \in Requests : ingest_insert(r)
    \/ \E r \in Requests : ingest_embed(r, TRUE, TRUE)

CrossSpec == Init /\ [][CrossNext]_vars

C28_EachItemNewInOneCycle ==
    [][\A i \in DOMAIN pollers :
          (/\ poller_cycle(i, FALSE)
           /\ ~pollers[i].raised
           /\ KeyActive(monitoring_threads, pollers[i].monitor_key)) =>
              LET messages == get_messages_by_thread(pollers[i].thread_id, now)
              IN /\ MessagesFound(monitoring_threads', pollers[i])
                       = MessagesFound(monitoring_threads, pollers[i])
                            + Cardinality(LaterThan(messages, pollers[i].last_check))
                 /\ MessagesFound(monitoring_threads', pollers[i]) <= Len(messages)]_vars

(***************************************************************************)
(* Reprocessing of stored sources.                                         *)
(***************************************************************************)
ReprocessNext ==
    \/ create_client
    \/ \E c \in Clients, t \in Texts : upload_document(c, t, TRUE, TRUE)
    \/ \E c \in Clients : ingest_sample_emails(c, TRUE, TRUE)
    \/ \E c \in Clients, d \in 1..(MaxRows + 1), ok \in BOOLEAN :
          reprocess_document(c, d, TRUE, ok)
    \/ \E c \in Clients, e \in 1..(MaxRows + MockLen), ok \in BOOLEAN :
          reprocess_email(c, e, TRUE, ok)
    \/ \E c \in Clients, d \in 1..(MaxRows + 1) : delete_document(c, d)
    \/ \E c \in Clients, e \in 1..(MaxRows + MockLen) : delete_email(c, e)

ReprocessSpec == Init /\ [][ReprocessNext]_vars

RetryNext ==
    \/ create_client
    \/ \E c \in RaceClients :
          /\ \A r \in DOMAIN ingests : ingests[r].pc = "done"
          /\ ingest_begin(c)
    \/ \E r \in Requests : ingest_check(r)
    \/ \E r \in Requests : ingest_insert(r)
    \/ \E r \in Requests, ok \in BOOLEAN :
          /\ r > 1 => ok
          /\ ingest_embed(r, TRUE, ok)
    \/ \E c \in RaceClients, e \in 1..(MaxRows + MockLen) : delete_email(c, e)

RetrySpec == Init /\ [][RetryNext]_vars

====
